---- MODULE Spec2Model ----
(***************************************************************************)
(* A model of the RAG indexing server: the code chunker and document       *)
(* assembler (processors/codeProcessor.ts), the store adapter              *)
(* (vector/client.ts), the tool-call handlers (server/mcp.ts), the         *)
(* command-line indexer (scripts/index-codebase) and the benchmark's       *)
(* embedding cache (scripts/enhanced-benchmark.ts).                        *)
(*                                                                         *)
(* Text is modelled as a sequence of one-character strings, so that        *)
(* String.length, split, join, slice and trim are computed and not         *)
(* assumed.                                                                *)
(***************************************************************************)
EXTENDS Integers, Sequences, FiniteSets, TLC

VARIABLES
  \* ---- the chunker under test (ChunkSpec) ----
  cFile,          \* the file handed to the chunker: [language, lines]
  cPc,            \* "ready" | "chunked" | "done"
  cChunks,        \* what chunkText returned for the file's content
  cDocs,          \* what processFile returned for the file
  \* ---- the server process (Spec) ----
  phase,          \* "constructed" | "connected" | "failed": RAGServer.start
  isReady,        \* RAGServer.isReady
  isInitialized,  \* VectorStore.isInitialized
  embedder,       \* VectorStore.embedder has been loaded
  collection,     \* VectorStore.collection holds a handle
  \* ---- the external vector database and the file system ----
  storeKind,      \* how the database treats an id it already holds
  dbExists,       \* the collection 'codebase' exists in the database
  dbDocs,         \* its records: a function from document id to record
  fs,             \* the indexed directory: path -> [exists, lines]
  \* ---- what the caller and the environment observed ----
  response,       \* the result the CallTool handler returned last
  last,           \* the last call: request, store before it, external calls
  idxLast,        \* the last index_codebase run, if it was a clean one
  idxRepeat,      \* that run against the one before it, if it repeated it
  \* ---- the benchmark's embedding cache (CacheSpec) ----
  cache,          \* EnhancedPerformanceBenchmark.cache: key -> vector
  cacheHits,      \* EnhancedPerformanceBenchmark.cacheHits
  cacheMisses,    \* EnhancedPerformanceBenchmark.cacheMisses
  requests,       \* every cachedEmbedding call so far, with its outcome
  \* ---- the command-line indexer (scripts/index-codebase, part of Spec) ----
  cliArgv,        \* process.argv.slice(2)
  cliPc,          \* "absent" | "start" | "indexing" | "watching" | "exited"
  cliOptions,     \* what parseArgs returned
  cliExit,        \* the exit status, once the process has exited
  cliOps,         \* the indexFile operations started by watch events
  cliLast         \* the last step of run: store before it, calls, outcome

chunkVars == <<cFile, cPc, cChunks, cDocs>>

serverVars == <<phase, isReady, isInitialized, embedder, collection>>

worldVars == <<storeKind, dbExists, dbDocs, fs>>

observedVars == <<response, last, idxLast, idxRepeat>>

benchVars == <<cache, cacheHits, cacheMisses, requests>>

cliVars == <<cliArgv, cliPc, cliOptions, cliExit, cliOps, cliLast>>

vars == <<chunkVars, serverVars, worldVars, observedVars, benchVars, cliVars>>

-----------------------------------------------------------------------------
\* Bounds of the model.

\* Longest file, in lines, handed to the chunker.
MaxLines == 4

\* ProcessingOptions.maxChunkSize. The option is 1000 by default; the model
\* runs the chunker with a small value so that short lines overflow a chunk.
maxChunkSize == 6

\* ProcessingOptions.overlapSize (DEFAULT_OPTIONS).
overlapSize == 100

-----------------------------------------------------------------------------
\* Characters and strings.

NL == "\n"

Whitespace == {" ", "\t", NL}

\* \w, over the characters the model's texts are written in.
WordChars == {"a", "b", "c", "d", "e", "f", "g", "h", "i", "j", "k", "l", "m",
              "n", "o", "p", "q", "r", "s", "t", "u", "v", "w", "x", "y", "z",
              "A", "0", "1", "2", "3", "4", "5", "6", "7", "8", "9", "_"}

\* `undefined`: no name is equal to it (names are sequences of one-character
\* strings).
Undefined == <<"undefined">>

\* `const x = e; ...` and `const x = await e; ...`: e is computed once and
\* the rest of the block runs with its value.
Bind(value, Rest(_)) == Rest(value)

Max(a, b) == IF a >= b THEN a ELSE b

Min(a, b) == IF a <= b THEN a ELSE b

\* Array.prototype.slice(from, to) on 0-based indexes, `to` exclusive.
Slice(s, from, to) == SubSeq(s, from + 1, Min(to, Len(s)))

\* Array.prototype.join(sep) of an array of strings.
RECURSIVE Join(_, _)
Join(strs, sep) ==
  IF strs = <<>> THEN <<>>
  ELSE IF Len(strs) = 1 THEN strs[1]
  ELSE strs[1] \o <<sep>> \o Join(Tail(strs), sep)

\* String.prototype.split('\n'): always at least one piece.
RECURSIVE SplitFrom(_, _)
SplitFrom(s, piece) ==
  IF s = <<>> THEN <<piece>>
  ELSE IF Head(s) = NL THEN <<piece>> \o SplitFrom(Tail(s), <<>>)
  ELSE SplitFrom(Tail(s), Append(piece, Head(s)))

Split(content) == SplitFrom(content, <<>>)

RECURSIVE TrimStart(_)
TrimStart(s) ==
  IF s # <<>> /\ Head(s) \in Whitespace THEN TrimStart(Tail(s)) ELSE s

RECURSIVE TrimEnd(_)
TrimEnd(s) ==
  IF s # <<>> /\ s[Len(s)] \in Whitespace
  THEN TrimEnd(SubSeq(s, 1, Len(s) - 1))
  ELSE s

\* String.prototype.trim().
Trim(s) == TrimEnd(TrimStart(s))

\* A file's text, as readFile returns it: its lines separated by newlines.
ContentOf(lines) == Join(lines, NL)

DigitChars == <<"0", "1", "2", "3", "4", "5", "6", "7", "8", "9">>

\* `${index}`: the decimal digits of a non-negative integer.
RECURSIVE IndexString(_)
IndexString(n) ==
  IF n < 10 THEN <<DigitChars[n + 1]>>
  ELSE Append(IndexString(n \div 10), DigitChars[(n % 10) + 1])

-----------------------------------------------------------------------------
\* chunkText: the windowed chunker.

\* Fault variant of Chunk: the range ends one line early (`end: i - 1`).
ChunkEndingEarly(text, startLine, endLine) ==
  [content |-> text, lines |-> [start |-> startLine, end |-> endLine - 1]]

Chunk(text, startLine, endLine) ==
  [content |-> text, lines |-> [start |-> startLine, end |-> endLine]]

\* Fault variant of the push: the chunk is pushed as accumulated, without
\* trim().
PushUntrimmed(chunks, currentChunk, startLine, endLine) ==
  IF Trim(currentChunk) # <<>>
  THEN Append(chunks, [content |-> currentChunk,
                       lines |-> [start |-> startLine, end |-> endLine]])
  ELSE chunks

\* Fault variant of the push: the chunk is pushed without the blank test.
PushAlways(chunks, currentChunk, startLine, endLine) ==
  Append(chunks, [content |-> Trim(currentChunk),
                  lines |-> [start |-> startLine, end |-> endLine]])

\* `if (currentChunk.trim()) chunks.push(...)`.
PushIfNonBlank(chunks, currentChunk, startLine, endLine) ==
  IF Trim(currentChunk) # <<>>
  THEN Append(chunks, Chunk(Trim(currentChunk), startLine, endLine))
  ELSE chunks

\* The number of lines a new chunk repeats: Math.floor(overlapSize / 50).
OverlapLines == overlapSize \div 50

\* The for loop of chunkText from index i on, and the final push.
RECURSIVE chunkTextLoop(_, _, _, _, _)
chunkTextLoop(lines, i, currentChunk, chunkStartLine, chunks) ==
  IF i >= Len(lines)
  THEN PushIfNonBlank(chunks, currentChunk, chunkStartLine + 1, Len(lines))
  ELSE
    LET line == lines[i + 1] IN
    IF Len(currentChunk) + Len(line) > maxChunkSize
    THEN
      LET overlapStart == Max(0, i - OverlapLines) IN
      chunkTextLoop(lines, i + 1,
                    Join(Slice(lines, overlapStart, i + 1), NL),
                    overlapStart,
                    PushIfNonBlank(chunks, currentChunk, chunkStartLine + 1, i))
    ELSE
      chunkTextLoop(lines, i + 1,
                    currentChunk \o line \o <<NL>>,
                    IF currentChunk = <<>> THEN i ELSE chunkStartLine,
                    chunks)

chunkText(content) == chunkTextLoop(Split(content), 0, <<>>, 0, <<>>)

-----------------------------------------------------------------------------
\* extractBlock: brace-depth scan from the detection line.

RECURSIVE BraceDelta(_)
BraceDelta(line) ==
  IF line = <<>> THEN 0
  ELSE (IF Head(line) = "{" THEN 1 ELSE IF Head(line) = "}" THEN -1 ELSE 0)
       + BraceDelta(Tail(line))

\* Fault variant of the scan: the block always runs to the end of the file.
extractBlockScanToEnd(lines, i, braceCount, endIndex) == Len(lines) - 1

\* The second loop of extractBlock: from index i with the given depth.
RECURSIVE extractBlockScan(_, _, _, _)
extractBlockScan(lines, i, braceCount, endIndex) ==
  IF i < Len(lines) /\ braceCount > 0
  THEN extractBlockScan(lines, i + 1, braceCount + BraceDelta(lines[i + 1]), i)
  ELSE endIndex

extractBlock(lines, startIndex) ==
  LET endIndex == extractBlockScan(lines, startIndex + 1,
                                   BraceDelta(lines[startIndex + 1]), startIndex)
  IN [content |-> Join(Slice(lines, startIndex, endIndex + 1), NL),
      endLine |-> endIndex]

-----------------------------------------------------------------------------
\* The regular expressions of getLanguagePatterns, matched on one line.
\* Positions are 1-based; a position past the end matches nothing.

CharAt(line, p) == IF p >= 1 /\ p <= Len(line) THEN line[p] ELSE ""

\* The position after the longest run of \s (resp. \w) starting at p.
RECURSIVE SpaceRunEnd(_, _)
SpaceRunEnd(line, p) ==
  IF CharAt(line, p) \in Whitespace THEN SpaceRunEnd(line, p + 1) ELSE p

RECURSIVE WordRunEnd(_, _)
WordRunEnd(line, p) ==
  IF CharAt(line, p) \in WordChars THEN WordRunEnd(line, p + 1) ELSE p

\* The literal lit occurs at p.
LiteralAt(line, p, lit) ==
  /\ p + Len(lit) - 1 <= Len(line)
  /\ SubSeq(line, p, p + Len(lit) - 1) = lit

KwFunction == <<"f", "u", "n", "c", "t", "i", "o", "n">>
KwClass == <<"c", "l", "a", "s", "s">>
KwDef == <<"d", "e", "f">>
KwStatic == <<"s", "t", "a", "t", "i", "c">>
KwArrow == <<"=", ">">>
JavaModifiers == << <<"p", "u", "b", "l", "i", "c">>,
                    <<"p", "r", "i", "v", "a", "t", "e">>,
                    <<"p", "r", "o", "t", "e", "c", "t", "e", "d">> >>

NoMatch == [matched |-> FALSE, name |-> Undefined]

Matched(name) == [matched |-> TRUE, name |-> name]

\* kw\s+(\w+) at p: `function\s+(\w+)`, `class\s+(\w+)`, `def\s+(\w+)`.
KeywordNameAt(line, p, kw) ==
  LET q == SpaceRunEnd(line, p + Len(kw))
      r == WordRunEnd(line, q)
  IN IF LiteralAt(line, p, kw) /\ q > p + Len(kw) /\ r > q
     THEN Matched(SubSeq(line, q, r - 1))
     ELSE NoMatch

\* \(.*?\)\s*<lit> at p: an opening parenthesis, any characters up to some
\* closing parenthesis, optional spaces, then lit.
ParensThenAt(line, p, lit) ==
  /\ CharAt(line, p) = "("
  /\ \E k \in (p + 1)..Len(line) :
       /\ line[k] = ")"
       /\ LiteralAt(line, SpaceRunEnd(line, k + 1), lit)

\* (\w+)\s*[:=]\s*(?:function|\(.*?\)\s*=>) at p; the name is group 2.
JsAssignedAt(line, p) ==
  LET r == WordRunEnd(line, p)
      q == SpaceRunEnd(line, r)
      v == SpaceRunEnd(line, q + 1)
  IN IF /\ r > p
        /\ CharAt(line, q) \in {":", "="}
        /\ \/ LiteralAt(line, v, KwFunction)
           \/ ParensThenAt(line, v, KwArrow)
     THEN Matched(SubSeq(line, p, r - 1))
     ELSE NoMatch

\* \s*(\w+)\s*\(.*?\)\s*{ at p; the name is group 3, which the caller never
\* reads: functionMatch[1] || functionMatch[2] || 'anonymous'.
JsMethodAt(line, p) ==
  LET w == SpaceRunEnd(line, p)
      r == WordRunEnd(line, w)
  IN IF r > w /\ ParensThenAt(line, SpaceRunEnd(line, r), <<"{">>)
     THEN Matched(Undefined)
     ELSE NoMatch

\* The javascript/typescript function pattern at p: the alternatives in order.
JsFunctionAt(line, p) ==
  Bind(KeywordNameAt(line, p, KwFunction), LAMBDA declared :
    IF declared.matched THEN declared
    ELSE Bind(JsAssignedAt(line, p), LAMBDA assigned :
           IF assigned.matched THEN assigned ELSE JsMethodAt(line, p)))

\* \w+\s+(\w+)\s*\( at p (the cpp function pattern, and the tail of java's).
TypedNameAt(line, p) ==
  LET r == WordRunEnd(line, p)
      q == SpaceRunEnd(line, r)
      n == WordRunEnd(line, q)
  IN IF r > p /\ q > r /\ n > q /\ CharAt(line, SpaceRunEnd(line, n)) = "("
     THEN Matched(SubSeq(line, q, n - 1))
     ELSE NoMatch

\* (?:static)?\s*\w+\s+(\w+)\s*\( at p: the optional group is tried first.
JavaStaticAt(line, p) ==
  Bind(TypedNameAt(line, SpaceRunEnd(line, p + Len(KwStatic))),
       LAMBDA withStatic :
         IF LiteralAt(line, p, KwStatic) /\ withStatic.matched
         THEN withStatic
         ELSE TypedNameAt(line, SpaceRunEnd(line, p)))

\* (?:public|private|protected)?\s*(?:static)?\s*\w+\s+(\w+)\s*\( at p.
JavaFunctionAt(line, p) ==
  Bind([m \in 1..3 |->
          IF LiteralAt(line, p, JavaModifiers[m])
          THEN JavaStaticAt(line, SpaceRunEnd(line, p + Len(JavaModifiers[m])))
          ELSE NoMatch],
       LAMBDA tries :
         IF tries[1].matched THEN tries[1]
         ELSE IF tries[2].matched THEN tries[2]
         ELSE IF tries[3].matched THEN tries[3]
         ELSE JavaStaticAt(line, SpaceRunEnd(line, p)))

\* (?:public|private)?\s*class\s+(\w+) at p: the prefix is optional, so the
\* leftmost match decides only where it starts, never the name.
JavaClassAt(line, p) ==
  Bind([m \in 1..2 |->
          IF LiteralAt(line, p, JavaModifiers[m])
          THEN KeywordNameAt(line,
                 SpaceRunEnd(line, p + Len(JavaModifiers[m])), KwClass)
          ELSE NoMatch],
       LAMBDA tries :
         IF tries[1].matched THEN tries[1]
         ELSE IF tries[2].matched THEN tries[2]
         ELSE KeywordNameAt(line, SpaceRunEnd(line, p), KwClass))

\* getLanguagePatterns(language).function at p; unknown languages use the
\* javascript patterns.
FunctionPatternAt(language, line, p) ==
  CASE language = "python" -> KeywordNameAt(line, p, KwDef)
    [] language = "java" -> JavaFunctionAt(line, p)
    [] language = "cpp" -> TypedNameAt(line, p)
    [] OTHER -> JsFunctionAt(line, p)

\* getLanguagePatterns(language).class at p.
ClassPatternAt(language, line, p) ==
  IF language = "java" THEN JavaClassAt(line, p)
  ELSE KeywordNameAt(line, p, KwClass)

\* line.match(pattern): the match at the leftmost position that has one.
RECURSIVE MatchFunctionFrom(_, _, _)
MatchFunctionFrom(language, line, p) ==
  IF p > Len(line) + 1 THEN NoMatch
  ELSE Bind(FunctionPatternAt(language, line, p), LAMBDA here :
         IF here.matched THEN here
         ELSE MatchFunctionFrom(language, line, p + 1))

RECURSIVE MatchClassFrom(_, _, _)
MatchClassFrom(language, line, p) ==
  IF p > Len(line) + 1 THEN NoMatch
  ELSE Bind(ClassPatternAt(language, line, p), LAMBDA here :
         IF here.matched THEN here
         ELSE MatchClassFrom(language, line, p + 1))

Anonymous == <<"a", "n", "o", "n", "y", "m", "o", "u", "s">>

-----------------------------------------------------------------------------
\* extractStructuralElements, chunkCode and processFile.

\* Fault variant of the element: the 0-based indexes are kept as line numbers.
ElementFromIndexes(type, name, block, i) ==
  [type |-> type, name |-> name, content |-> block.content,
   lines |-> [start |-> i, end |-> block.endLine]]

Element(type, name, block, i) ==
  [type |-> type, name |-> name, content |-> block.content,
   lines |-> [start |-> i + 1, end |-> block.endLine + 1]]

\* The elements line i contributes: a function element, then a class element.
ElementsOfLine(lines, i, language) ==
  Bind(MatchFunctionFrom(language, lines[i + 1], 1), LAMBDA functionMatch :
  Bind(MatchClassFrom(language, lines[i + 1], 1), LAMBDA classMatch :
    LET \* functionMatch[1] || functionMatch[2] || 'anonymous'
        functionName == IF functionMatch.name # Undefined
                        THEN functionMatch.name ELSE Anonymous
    IN (IF functionMatch.matched
        THEN <<Element("function", functionName, extractBlock(lines, i), i)>>
        ELSE <<>>)
       \o
       (IF classMatch.matched
        THEN <<Element("class", classMatch.name, extractBlock(lines, i), i)>>
        ELSE <<>>)))

RECURSIVE extractStructuralFrom(_, _, _)
extractStructuralFrom(lines, i, language) ==
  IF i >= Len(lines) THEN <<>>
  ELSE ElementsOfLine(lines, i, language)
       \o extractStructuralFrom(lines, i + 1, language)

extractStructuralElements(content, language) ==
  extractStructuralFrom(Split(content), 0, language)

\* A Document. An optional metadata field that is absent holds Undefined.
Document(filepath, kind, discriminator, text, type, language, lines, fn, cls) ==
  [id |-> <<filepath, kind, discriminator>>,
   content |-> text,
   metadata |-> [filepath |-> filepath, type |-> type, language |-> language,
                 lines |-> lines, function |-> fn, class |-> cls]]

StructuralDocument(filepath, language, element) ==
  Document(filepath, element.type, element.name, element.content, "code",
           language, element.lines,
           IF element.type = "function" THEN element.name ELSE Undefined,
           IF element.type = "class" THEN element.name ELSE Undefined)

\* chunks.forEach((chunk, index) => documents.push(...)) of processFile: one
\* document per chunk, the index being the chunk's position.
DocDocuments(filepath, language, chunks) ==
  [k \in 1..Len(chunks) |->
     Document(filepath, "doc", IndexString(k - 1), chunks[k].content, "doc", language,
              chunks[k].lines, Undefined, Undefined)]

\* chunks.forEach((chunk, index) => { if (chunk.content.trim()) ... }) of
\* chunkCode: a blank chunk is skipped and its index is not reused.
WindowDocuments(filepath, language, chunks) ==
  LET kept == {k \in 1..Len(chunks) : Trim(chunks[k].content) # <<>>}
      nth(j) == CHOOSE k \in kept : Cardinality({m \in kept : m < k}) = j - 1
  IN [j \in 1..Cardinality(kept) |->
        Document(filepath, "chunk", IndexString(nth(j) - 1), chunks[nth(j)].content, "code",
                 language, chunks[nth(j)].lines, Undefined, Undefined)]

\* Fault variant of chunkCode: the file is windowed only when no structural
\* element was found.
chunkCodeStructuralFirst(content, filepath, language) ==
  Bind(extractStructuralElements(content, language), LAMBDA structuralElements :
    IF Len(structuralElements) > 0
    THEN [k \in 1..Len(structuralElements) |->
            StructuralDocument(filepath, language, structuralElements[k])]
    ELSE WindowDocuments(filepath, language, chunkText(content)))

chunkCode(content, filepath, language) ==
  Bind(extractStructuralElements(content, language), LAMBDA structuralElements :
    [k \in 1..Len(structuralElements) |->
       StructuralDocument(filepath, language, structuralElements[k])]
    \o WindowDocuments(filepath, language, chunkText(content)))

\* Fault variant of processFile: every file is processed as a code file.
processFileAsCode(content, relativePath, language) ==
  chunkCode(content, relativePath, language)

\* processFile once the file has been read: documentation files are only
\* windowed.
processFile(content, relativePath, language) ==
  IF language = "markdown" \/ language = "text"
  THEN DocDocuments(relativePath, language, chunkText(content))
  ELSE chunkCode(content, relativePath, language)

-----------------------------------------------------------------------------
\* The file system: one directory that exists, with a code file whose content
\* changes and a documentation file, and one path that does not exist.

RootPath == "/repo"

MissingPath == "/nowhere"

CodeFile == "a.ts"

DocFile == "b.md"

\* A file of the directory whose name has no extension of
\* LANGUAGE_EXTENSIONS; its content, the one line 'a', does not change.
OtherFile == "Makefile"

\* findFiles: the files of the directory that the patterns `**/*${ext}`
\* match, in the order glob returns them.
FileOrder == <<CodeFile, DocFile>>

\* LANGUAGE_EXTENSIONS[path.extname(filePath)] || 'text'.
LanguageOf(path) ==
  CASE path = CodeFile -> "typescript"
    [] path = DocFile -> "markdown"
    [] OTHER -> "text"

LineMethod == <<"a", " ", "b", "(", ")", "{">>

LineClass == <<"c", "l", "a", "s", "s", " ", "A">>

\* The contents the code file takes: empty, one class, two methods.
CodeContents ==
  { << <<>> >>,
    << LineClass >>,
    << LineMethod, LineMethod, <<"}">> >> }

DocContent == << <<"d", "e", "f", " ", "f">> >>

File(lines) == [exists |-> TRUE, lines |-> lines]

NoFile == [exists |-> FALSE, lines |-> <<>>]

\* Fault variant: the first file whose read throws ends the run, and the
\* documents of the files before it are lost with it.
processFilesAborting(dir, files, unreadable) ==
  IF \E k \in 1..Len(files) : files[k] \in unreadable THEN <<>>
  ELSE LET DocumentsAt[k \in 0..Len(files)] ==
             IF k = 0 THEN <<>>
             ELSE DocumentsAt[k - 1]
                  \o (IF dir[files[k]].exists
                      THEN processFile(ContentOf(dir[files[k]].lines), files[k],
                                       LanguageOf(files[k]))
                      ELSE <<>>)
       IN DocumentsAt[Len(files)]

\* processCodebase on the directory as it is: the documents of every file
\* that exists and can be read, in file order; a file whose read throws is
\* logged and skipped.
RECURSIVE processFiles(_, _, _)
processFiles(dir, files, unreadable) ==
  IF files = <<>> THEN <<>>
  ELSE
    LET file == Head(files) IN
    (IF dir[file].exists /\ file \notin unreadable
     THEN processFile(ContentOf(dir[file].lines), file, LanguageOf(file))
     ELSE <<>>)
    \o processFiles(dir, Tail(files), unreadable)

processCodebase(dir, unreadable) == processFiles(dir, FileOrder, unreadable)

-----------------------------------------------------------------------------
\* Thrown values and tool results.

NoThrow == [isThrown |-> FALSE, isError |-> FALSE, message |-> <<>>]

\* new Error(message).
Error(message) == [isThrown |-> TRUE, isError |-> TRUE, message |-> message]

\* What a failing external call throws: an Error, or a value that is none.
ExternalThrowables ==
  { Error(<<"external failure">>),
    [isThrown |-> TRUE, isError |-> FALSE, message |-> <<>>] }

\* A CallToolResult whose content is one text item.
TextResult(text) == [content |-> << [type |-> "text", text |-> text] >>]

\* The catch block of the CallTool handler.
ErrorResult(error) ==
  LET errorMessage == IF error.isError THEN error.message
                      ELSE <<"Unknown error">>
  IN TextResult(<<"Error: ", errorMessage>>)

NoResultsText ==
  <<"No results found for your query. Try different search terms or make sure the codebase is indexed.">>

CancelledText == <<"Index clearing cancelled. Set confirm=true to proceed.">>

ClearedText == <<"Vector database index cleared successfully.">>

-----------------------------------------------------------------------------
\* The external vector database, as the store adapter uses it.

StoreKinds == {"upsert", "add-once"}

EmptyDocs == [id \in {} |-> 0]

DocCount(docs) == Cardinality(DOMAIN docs)

Ids(documents) == [k \in 1..Len(documents) |-> documents[k].id]

HasRepeatedId(documents) ==
  \E j, k \in 1..Len(documents) : j < k /\ documents[j].id = documents[k].id

\* The record addDocuments writes for a document: `x || ''` and `x || 0` for
\* the optional metadata.
StoredRecord(doc) ==
  [document |-> doc.content,
   metadata |->
     [filepath |-> doc.metadata.filepath,
      type |-> doc.metadata.type,
      language |-> doc.metadata.language,
      lines_start |-> doc.metadata.lines.start,
      lines_end |-> doc.metadata.lines.end,
      function |-> IF doc.metadata.function = Undefined THEN <<>>
                   ELSE doc.metadata.function,
      class |-> IF doc.metadata.class = Undefined THEN <<>>
                ELSE doc.metadata.class,
      content |-> doc.content]]

\* The last document of the batch that carries the id.
LastWithId(documents, id) ==
  documents[CHOOSE k \in 1..Len(documents) :
              /\ documents[k].id = id
              /\ \A m \in (k + 1)..Len(documents) : documents[m].id # id]

\* collection.add on an upsert-by-id store: a record replaces the one held
\* under its id.
UpsertAll(docs, documents) ==
  [id \in DOMAIN docs \cup {documents[k].id : k \in 1..Len(documents)} |->
     IF \E k \in 1..Len(documents) : documents[k].id = id
     THEN StoredRecord(LastWithId(documents, id))
     ELSE docs[id]]

\* collection.add on a store that keeps the record it already holds.
AddMissing(docs, documents) ==
  [id \in DOMAIN docs \cup {documents[k].id : k \in 1..Len(documents)} |->
     IF id \in DOMAIN docs THEN docs[id]
     ELSE StoredRecord(LastWithId(documents, id))]

\* Whether collection.add accepts the batch: the add-once store refuses a
\* batch that repeats an id.
AddAccepted(kind, documents) == kind = "upsert" \/ ~HasRepeatedId(documents)

\* Fault variant of the store: a record whose id is already held is written
\* under a fresh id beside the one held.
StoreAddCopying(kind, docs, documents) ==
  LET Fresh(id) == IF id \in DOMAIN docs
                   THEN <<id[1], id[2], Append(id[3], "+")>>
                   ELSE id
      written == {Fresh(documents[k].id) : k \in 1..Len(documents)}
  IN [key \in DOMAIN docs \cup written |->
        IF key \in DOMAIN docs THEN docs[key]
        ELSE StoredRecord(
               documents[CHOOSE k \in 1..Len(documents) :
                           Fresh(documents[k].id) = key])]

StoreAdd(kind, docs, documents) ==
  IF kind = "upsert" THEN UpsertAll(docs, documents)
  ELSE AddMissing(docs, documents)

\* collection.query: at most nResults ids, nearest first. The order the store
\* ranks in is its own; the model fixes one.
RECURSIVE Ranked(_, _)
Ranked(docs, ids) ==
  IF ids = {} THEN <<>>
  ELSE LET first == CHOOSE id \in ids : TRUE
       IN <<first>> \o Ranked(docs, ids \ {first})

StoreQuery(docs, nResults) ==
  LET ranked == Ranked(docs, DOMAIN docs)
  IN SubSeq(ranked, 1, Min(Max(nResults, 0), Len(ranked)))

-----------------------------------------------------------------------------
\* The store adapter (VectorStore). A method takes the process and database
\* state w and the outcome env of the external calls it makes, and yields the
\* state it leaves, what it threw, and what it returned.

Returned(w, value) == [w |-> w, thrown |-> NoThrow, value |-> value]

Threw(w, error) == [w |-> w, thrown |-> error, value |-> <<>>]

\* An external call, as the environment sees it.
Call(op, n, ids, text) == [op |-> op, n |-> n, ids |-> ids, text |-> text]

\* The call is made; ok tells whether it returned (TRUE) or threw (FALSE).
Called(w, call, ok) ==
  [w EXCEPT !.calls = Append(@, [op |-> call.op, n |-> call.n, ids |-> call.ids,
                                 text |-> call.text, ok |-> ok])]

\* What the database answers to a request on a collection handle.
MissingCollection == Error(<<"Collection does not exist">>)

RepeatedIds == Error(<<"Expected IDs to be unique">>)

\* VectorStore.initialize.
vsInitialize(w, env) ==
  LET loading == Called(w, Call("pipeline", 0, <<>>, <<>>), env.pipelineOk)
      loaded == [loading EXCEPT !.embedder = TRUE]
      creating == Called(loaded, Call("getOrCreateCollection", 0, <<>>, <<>>),
                         env.createOk)
  IN IF ~env.pipelineOk THEN Threw(loading, env.thrown)
     ELSE IF ~env.createOk THEN Threw(creating, env.thrown)
     ELSE Returned([creating EXCEPT !.collection = TRUE, !.exists = TRUE,
                                    !.isInitialized = TRUE], <<>>)

\* VectorStore.generateEmbeddings: one embedder call per text, in order; the
\* call for text number env.embedFailAt fails.
RECURSIVE embedFrom(_, _, _, _)
embedFrom(w, texts, k, env) ==
  IF k > Len(texts) THEN Returned(w, texts)
  ELSE LET calling == Called(w, Call("embed", 0, <<>>, texts[k]),
                             env.embedFailAt # k)
       IN IF env.embedFailAt = k THEN Threw(calling, env.thrown)
          ELSE embedFrom(calling, texts, k + 1, env)

generateEmbeddings(w, texts, env) ==
  IF ~w.embedder THEN Threw(w, Error(<<"Embedder not initialized">>))
  ELSE embedFrom(w, texts, 1, env)

\* Fault variant of addDocuments: each document is embedded and written on
\* its own, so the documents before a failing one are already in the store.
RECURSIVE addOneByOneFrom(_, _, _, _)
addOneByOneFrom(w, documents, k, env) ==
  IF k > Len(documents) THEN Returned(w, <<>>)
  ELSE LET calling == Called(w, Call("embed", 0, <<>>, documents[k].content),
                             env.embedFailAt # k)
           adding == Called(calling, Call("add", 0, Ids(<<documents[k]>>), <<>>),
                            env.addOk /\ calling.exists)
       IN IF env.embedFailAt = k THEN Threw(calling, env.thrown)
          ELSE IF ~env.addOk THEN Threw(adding, env.thrown)
          ELSE IF ~adding.exists THEN Threw(adding, MissingCollection)
          ELSE addOneByOneFrom(
                 [adding EXCEPT
                    !.docs = StoreAdd(adding.kind, adding.docs, <<documents[k]>>)],
                 documents, k + 1, env)

addDocumentsOneByOne(w, documents, env) ==
  IF ~w.isInitialized THEN Threw(w, Error(<<"Vector store not initialized">>))
  ELSE addOneByOneFrom(w, documents, 1, env)

\* VectorStore.addDocuments.
addDocuments(w, documents, env) ==
  IF ~w.isInitialized THEN Threw(w, Error(<<"Vector store not initialized">>))
  ELSE IF Len(documents) = 0 THEN Returned(w, <<>>)
  ELSE
    LET embedded == generateEmbeddings(
                      w, [k \in 1..Len(documents) |-> documents[k].content], env)
        adding == Called(embedded.w, Call("add", 0, Ids(documents), <<>>),
                         /\ env.addOk
                         /\ embedded.w.exists
                         /\ AddAccepted(embedded.w.kind, documents))
    IN IF embedded.thrown.isThrown THEN embedded
       ELSE IF ~env.addOk THEN Threw(adding, env.thrown)
       ELSE IF ~adding.exists THEN Threw(adding, MissingCollection)
       ELSE IF ~AddAccepted(adding.kind, documents) THEN Threw(adding, RepeatedIds)
       ELSE Returned([adding EXCEPT
                        !.docs = StoreAdd(adding.kind, adding.docs, documents)],
                     <<>>)

\* findFiles: the glob over the root path, with which processCodebase
\* starts.
Globbed(w, rootPath) == Called(w, Call("glob", 0, <<>>, rootPath), TRUE)

UndefinedLines == [start |-> 0, end |-> 0]

\* The distances the store reports for a hit (in units of the model): the
\* collection is created without a distance function, so the store measures
\* the squared L2 distance, which for normalised embeddings ranges over 0..4.
Distances == {0, 1, 2, 4}

\* results.distances?.[0][i]: a reported distance, or none.
Distance(d) == [given |-> TRUE, value |-> d]

NoDistance == [given |-> FALSE, value |-> 0]

\* 1 - (results.distances?.[0][i] || 0).
Score(distance) ==
  1 - (IF distance.given /\ distance.value # 0 THEN distance.value ELSE 0)

\* The SearchResult built from the record the store returned for id.
SearchResult(id, record, distance) ==
  [id |-> id,
   content |-> record.document,
   metadata |->
     [filepath |-> record.metadata.filepath,
      type |-> record.metadata.type,
      language |-> record.metadata.language,
      lines |-> IF record.metadata.lines_start > 0
                THEN [start |-> record.metadata.lines_start,
                      end |-> record.metadata.lines_end]
                ELSE UndefinedLines,
      function |-> IF record.metadata.function # <<>>
                   THEN record.metadata.function ELSE Undefined,
      class |-> IF record.metadata.class # <<>>
                THEN record.metadata.class ELSE Undefined],
   score |-> Score(distance)]

\* VectorStore.search.
search(w, query, limit, env) ==
  IF ~w.isInitialized THEN Threw(w, Error(<<"Vector store not initialized">>))
  ELSE
    LET embedded == generateEmbeddings(w, <<query>>, env)
        querying == Called(embedded.w, Call("query", limit, <<>>, query),
                           env.queryOk /\ embedded.w.exists)
        ids == StoreQuery(querying.docs, limit)
    IN IF embedded.thrown.isThrown THEN embedded
       ELSE IF ~env.queryOk THEN Threw(querying, env.thrown)
       ELSE IF ~querying.exists THEN Threw(querying, MissingCollection)
       ELSE IF ~env.fieldsPresent THEN Returned(querying, <<>>)
       ELSE Returned(querying,
                     [k \in 1..Len(ids) |->
                        SearchResult(ids[k], querying.docs[ids[k]], env.distance)])

\* VectorStore.deleteCollection: a failure is logged and not rethrown.
deleteCollection(w, env) ==
  LET deleting == Called(w, Call("deleteCollection", 0, <<>>, <<>>),
                         env.deleteOk /\ w.exists)
  IN IF ~w.isInitialized THEN Returned(w, <<>>)
     ELSE IF ~env.deleteOk \/ ~deleting.exists THEN Returned(deleting, <<>>)
     ELSE Returned([deleting EXCEPT !.exists = FALSE, !.docs = EmptyDocs], <<>>)

\* VectorStore.getCount: a failure is logged and 0 is returned.
getCount(w, env) ==
  LET counting == Called(w, Call("count", 0, <<>>, <<>>),
                         env.countOk /\ w.exists)
  IN IF ~w.isInitialized THEN Returned(w, 0)
     ELSE IF ~env.countOk \/ ~counting.exists THEN Returned(counting, 0)
     ELSE Returned(counting, DocCount(counting.docs))

\* VectorStore.clearCache: fs.rm with force; a failure is logged.
clearCache(w, env) ==
  Returned(Called(w, Call("rm cache", 0, <<>>, <<>>), TRUE), <<>>)

-----------------------------------------------------------------------------
\* The tool-call handlers (RAGServer).

\* The arguments of a request. `given` is false when the request carries no
\* arguments object at all; a field's `type` is "undefined" when it is absent.
NoValue == [type |-> "undefined", str |-> "", num |-> 0, bool |-> FALSE]

Str(x) == [type |-> "string", str |-> x, num |-> 0, bool |-> FALSE]

Num(n) == [type |-> "number", str |-> "", num |-> n, bool |-> FALSE]

Bool(b) == [type |-> "boolean", str |-> "", num |-> 0, bool |-> b]

Args(query, limit, path, confirm) ==
  [given |-> TRUE, query |-> query, limit |-> limit, path |-> path,
   confirm |-> confirm]

NoArgs ==
  [given |-> FALSE, query |-> NoValue, limit |-> NoValue, path |-> NoValue,
   confirm |-> NoValue]

\* `const { ... } = args` with args undefined.
DestructureError == Error(<<"Cannot destructure property of undefined">>)

\* JavaScript truthiness of an argument value.
Truthy(v) ==
  CASE v.type = "string" -> v.str # ""
    [] v.type = "number" -> v.num # 0
    [] v.type = "boolean" -> v.bool
    [] OTHER -> FALSE

\* RAGServer.initialize.
initialize(w, env) ==
  IF w.isReady THEN Returned(w, <<>>)
  ELSE LET started == vsInitialize(w, env)
       IN IF started.thrown.isThrown THEN started
          ELSE Returned([started.w EXCEPT !.isReady = TRUE], <<>>)

\* `if (!this.isReady) await this.initialize()`.
EnsureReady(w, env) == IF ~w.isReady THEN initialize(w, env) ELSE Returned(w, <<>>)

\* One entry of the formatted result list.
FormattedResult(result, index) ==
  [n |-> index + 1, score |-> result.score, file |-> result.metadata.filepath,
   lines |-> result.metadata.lines, type |-> result.metadata.type,
   language |-> result.metadata.language,
   function |-> result.metadata.function, class |-> result.metadata.class,
   content |-> result.content]

\* Fault variant of FoundText: the results are listed last to first.
FoundTextReversed(results) ==
  <<"Found ", Len(results), " relevant results:",
    [k \in 1..Len(results) |->
       FormattedResult(results[Len(results) - k + 1], k - 1)]>>

FoundText(results) ==
  <<"Found ", Len(results), " relevant results:",
    [k \in 1..Len(results) |-> FormattedResult(results[k], k - 1)]>>

\* `limit = 5` in the destructuring, then Math.min(limit, 20).
ForwardedLimit(limit) ==
  Min(IF limit.type = "undefined" THEN 5 ELSE limit.num, 20)

handleSearchCodebase(w, args, env) ==
  LET ready == EnsureReady(w, env)
  IN IF ready.thrown.isThrown THEN ready
     ELSE IF ~args.given THEN Threw(ready.w, DestructureError)
     ELSE IF ~Truthy(args.query) \/ args.query.type # "string"
     THEN Threw(ready.w,
                Error(<<"Query parameter is required and must be a string">>))
     ELSE
       Bind(search(ready.w, args.query.str, ForwardedLimit(args.limit), env),
            LAMBDA found :
              IF found.thrown.isThrown THEN found
              ELSE IF Len(found.value) = 0
              THEN Returned(found.w, NoResultsText)
              ELSE Returned(found.w, FoundText(found.value)))

\* path.resolve of a path that is already absolute and normalised.
Resolve(codePath) == codePath

\* Fault variant: the existence of the root path is not verified.
AccessibleAlways(absolutePath) == TRUE

\* fs.access(absolutePath) succeeds.
Accessible(absolutePath) == absolutePath = RootPath

IndexedText(documents, absolutePath, stats) ==
  <<"Successfully indexed ", Len(documents), " documents from ", absolutePath,
    "Total documents in index: ", stats>>

handleIndexCodebase(w, args, dir, env) ==
  LET ready == EnsureReady(w, env)
      absolutePath == Resolve(args.path.str)
  IN IF ready.thrown.isThrown THEN ready
     ELSE IF ~args.given THEN Threw(ready.w, DestructureError)
     ELSE IF ~Truthy(args.path) \/ args.path.type # "string"
     THEN Threw(ready.w,
                Error(<<"Path parameter is required and must be a string">>))
     ELSE IF ~Accessible(absolutePath)
     THEN Threw(ready.w, Error(<<"Directory does not exist: ", absolutePath>>))
     ELSE
       Bind(processCodebase(dir, env.unreadable), LAMBDA documents :
         IF Len(documents) = 0
         THEN Returned(Globbed(ready.w, absolutePath),
                       <<"No documents found to index in: ", absolutePath>>)
         ELSE
           Bind(addDocuments(Globbed(ready.w, absolutePath), documents, env),
                LAMBDA added :
             IF added.thrown.isThrown THEN added
             ELSE
               Bind(getCount(added.w, env), LAMBDA stats :
                 Returned(stats.w,
                          IndexedText(documents, absolutePath, stats.value)))))

handleGetIndexStats(w, env) ==
  LET ready == EnsureReady(w, env)
      count == getCount(ready.w, env)
  IN IF ready.thrown.isThrown THEN ready
     ELSE Returned(count.w,
                   <<"Vector Database Statistics:", count.value,
                     IF count.w.isReady THEN "Ready" ELSE "Initializing">>)

\* Fault variant of the confirmation check: the flag is not read.
ConfirmIgnored(confirm) == TRUE

\* `const { confirm = false } = args`, then `if (!confirm)`.
Confirmed(confirm) == IF confirm.type = "undefined" THEN FALSE ELSE Truthy(confirm)

handleClearIndex(w, args, env) ==
  LET ready == EnsureReady(w, env)
      deleted == deleteCollection(ready.w, env)
      cleared == clearCache(deleted.w, env)
  IN IF ready.thrown.isThrown THEN ready
     ELSE IF ~args.given THEN Threw(ready.w, DestructureError)
     ELSE IF ~Confirmed(args.confirm) THEN Returned(ready.w, CancelledText)
     ELSE Returned(cleared.w, ClearedText)

ToolNames == {"search_codebase", "index_codebase", "get_index_stats",
              "clear_index", "no_such_tool"}

\* The switch of the CallTool handler.
Dispatch(name, w, args, dir, env) ==
  CASE name = "search_codebase" -> handleSearchCodebase(w, args, env)
    [] name = "index_codebase" -> handleIndexCodebase(w, args, dir, env)
    [] name = "get_index_stats" -> handleGetIndexStats(w, env)
    [] name = "clear_index" -> handleClearIndex(w, args, env)
    [] OTHER -> Threw(w, Error(<<"Unknown tool: ", name>>))

\* Fault variant of the CallTool handler: no catch, so a throw leaves the
\* request without a result.
CallToolRethrowing(outcome) ==
  IF outcome.thrown.isThrown THEN [content |-> <<>>]
  ELSE TextResult(outcome.value)

\* The try/catch around the switch: what the CallTool handler resolves to.
CallToolResult(outcome) ==
  IF outcome.thrown.isThrown THEN ErrorResult(outcome.thrown)
  ELSE TextResult(outcome.value)

-----------------------------------------------------------------------------
\* The server process: start-up, the tool calls a client sends once the
\* transport is connected, and edits of the indexed directory.

\* The outcome of every external call when nothing fails.
DefaultEnv ==
  [pipelineOk |-> TRUE, createOk |-> TRUE, embedFailAt |-> 0, queryOk |-> TRUE,
   fieldsPresent |-> TRUE, addOk |-> TRUE, countOk |-> TRUE, deleteOk |-> TRUE,
   unreadable |-> {}, distance |-> Distance(0), thrown |-> Error(<<"external failure">>)]

\* The environment makes some external call fail (or answer malformed).
Faulty(env) ==
  \/ ~env.pipelineOk \/ ~env.createOk \/ env.embedFailAt # 0 \/ ~env.queryOk
  \/ ~env.fieldsPresent \/ ~env.addOk \/ ~env.countOk \/ ~env.deleteOk
  \/ env.unreadable # {}

\* Largest position in a batch at which the embedding call is made to fail.
MaxFailAt == 2

LimitInputs == {-1, 0, 1, 5, 20, 21}

NoCall ==
  [tool |-> "", args |-> NoArgs, before |-> [exists |-> FALSE, count |-> 0],
   calls |-> <<>>, thrown |-> NoThrow, faulty |-> FALSE, unreadable |-> {}]

NoRun == [valid |-> FALSE, dir |-> <<>>, ids |-> <<>>, count |-> 0]

NoRepeat ==
  [valid |-> FALSE, firstIds |-> <<>>, secondIds |-> <<>>, firstCount |-> 0,
   secondCount |-> 0]

NoResponse == [content |-> <<>>]

\* The documents the collection holds when an earlier process indexed the
\* directory with the one-class code file.
PriorDocs ==
  UpsertAll(EmptyDocs,
            processCodebase([f \in {CodeFile, DocFile} |->
                               IF f = CodeFile THEN File(<< LineClass >>)
                               ELSE File(DocContent)], {}))

World ==
  [isReady |-> isReady, isInitialized |-> isInitialized, embedder |-> embedder,
   collection |-> collection, kind |-> storeKind, exists |-> dbExists,
   docs |-> dbDocs, calls |-> <<>>]

\* The process and database state an operation leaves.
Leaves(w) ==
  /\ isReady' = w.isReady
  /\ isInitialized' = w.isInitialized
  /\ embedder' = w.embedder
  /\ collection' = w.collection
  /\ dbExists' = w.exists
  /\ dbDocs' = w.docs

ServerInit ==
  /\ phase = "constructed"
  /\ isReady = FALSE
  /\ isInitialized = FALSE
  /\ embedder = FALSE
  /\ collection = FALSE
  /\ storeKind \in StoreKinds
  /\ dbExists \in BOOLEAN
  /\ dbDocs \in (IF dbExists THEN {EmptyDocs, PriorDocs} ELSE {EmptyDocs})
  /\ fs \in {[f \in {CodeFile, DocFile} |->
                IF f = CodeFile THEN File(c) ELSE File(DocContent)] :
             c \in CodeContents}
  /\ response = NoResponse
  /\ last = NoCall
  /\ idxLast = NoRun
  /\ idxRepeat = NoRepeat

StartEnvs ==
  {DefaultEnv}
  \cup {[DefaultEnv EXCEPT !.pipelineOk = FALSE, !.thrown = t] :
          t \in ExternalThrowables}
  \cup {[DefaultEnv EXCEPT !.createOk = FALSE, !.thrown = t] :
          t \in ExternalThrowables}

\* RAGServer.start: initialize, then connect the transport; when initialize
\* throws, start rejects and no request is ever received.
Start ==
  /\ phase = "constructed"
  /\ \E env \in StartEnvs :
     \E started \in {initialize(World, env)} :
       /\ Leaves(started.w)
       /\ phase' = IF started.thrown.isThrown THEN "failed" ELSE "connected"
  /\ UNCHANGED <<chunkVars, storeKind, fs, observedVars, benchVars, cliVars>>

ReachedChunking(args) ==
  /\ args.given
  /\ Truthy(args.path) /\ args.path.type = "string"
  /\ Accessible(Resolve(args.path.str))

\* The ids handed to the collection's add during a call, if it was reached.
RECURSIVE AddedIdsFrom(_, _)
AddedIdsFrom(calls, k) ==
  IF k > Len(calls) THEN <<>>
  ELSE IF calls[k].op = "add" THEN calls[k].ids
  ELSE AddedIdsFrom(calls, k + 1)

\* An index_codebase call that chunked the directory, wrote its documents
\* and returned its summary while no external call failed.
CleanIndexRun(name, args, env, outcome) ==
  /\ name = "index_codebase"
  /\ ReachedChunking(args)
  /\ ~Faulty(env)
  /\ ~outcome.thrown.isThrown
  /\ AddedIdsFrom(outcome.w.calls, 1) # <<>>

\* What such a run leaves on record: the directory it saw, the ids it wrote
\* and the number of records in the collection after it.
RunRecord(env, outcome) ==
  [valid |-> TRUE, dir |-> fs[CodeFile].lines,
   ids |-> AddedIdsFrom(outcome.w.calls, 1),
   count |-> DocCount(outcome.w.docs)]

\* The record of a run that repeats the run on record on an unchanged
\* directory: both runs' ids and both counts.
RepeatRecord(env, outcome) ==
  IF idxLast.valid /\ idxLast.dir = fs[CodeFile].lines
  THEN [valid |-> TRUE, firstIds |-> idxLast.ids,
        secondIds |-> AddedIdsFrom(outcome.w.calls, 1),
        firstCount |-> idxLast.count,
        secondCount |-> DocCount(outcome.w.docs)]
  ELSE NoRepeat

Touches(name, outcome) ==
  \/ name = "index_codebase"
  \/ \E k \in 1..Len(outcome.w.calls) : outcome.w.calls[k].op = "deleteCollection"

\* One request handled by the CallTool handler, from receipt to result; the
\* transport delivers requests once it is connected.
CallTool(name, args, env) ==
  \E outcome \in {Dispatch(name, World, args, fs, env)} :
    /\ Leaves(outcome.w)
    /\ response' = CallToolResult(outcome)
    /\ last' = [tool |-> name, args |-> args,
                before |-> [exists |-> dbExists, count |-> DocCount(dbDocs)],
                calls |-> outcome.w.calls, thrown |-> outcome.thrown,
                faulty |-> Faulty(env), unreadable |-> env.unreadable]
    /\ IF CleanIndexRun(name, args, env, outcome)
       THEN /\ idxLast' = RunRecord(env, outcome)
            /\ idxRepeat' = RepeatRecord(env, outcome)
       ELSE IF Touches(name, outcome)
       THEN idxLast' = NoRun /\ idxRepeat' = NoRepeat
       ELSE UNCHANGED <<idxLast, idxRepeat>>
    /\ UNCHANGED <<chunkVars, phase, storeKind, fs, benchVars, cliVars>>

\* A request together with what the environment does during it.
Case(args, env) == [args |-> args, env |-> env]

\* An external call that fails throws one of ExternalThrowables.
EmbedFaults(positions) ==
  {[DefaultEnv EXCEPT !.embedFailAt = k, !.thrown = t] :
     k \in positions, t \in ExternalThrowables}

SearchCases ==
  {Case(NoArgs, DefaultEnv)}
  \cup {Case(Args(q, NoValue, NoValue, NoValue), DefaultEnv) :
          q \in {Str(""), Num(7), NoValue}}
  \cup {Case(Args(Str("find"), limit, NoValue, NoValue), DefaultEnv) :
          limit \in {NoValue} \cup {Num(n) : n \in LimitInputs}}
  \cup {Case(Args(Str("find"), NoValue, NoValue, NoValue), env) :
          env \in EmbedFaults({1})
                  \cup {[DefaultEnv EXCEPT !.queryOk = FALSE, !.thrown = t] :
                          t \in ExternalThrowables}
                  \cup {[DefaultEnv EXCEPT !.fieldsPresent = FALSE]}
                  \cup {[DefaultEnv EXCEPT !.distance = d] :
                          d \in {NoDistance} \cup {Distance(v) : v \in Distances}}}

SearchCall ==
  /\ phase = "connected"
  /\ \E c \in SearchCases : CallTool("search_codebase", c.args, c.env)

IndexCases ==
  {Case(NoArgs, DefaultEnv)}
  \cup {Case(Args(NoValue, NoValue, path, NoValue), DefaultEnv) :
          path \in {Str(MissingPath), Num(3), NoValue}}
  \cup {Case(Args(NoValue, NoValue, Str(RootPath), NoValue),
             [env EXCEPT !.unreadable = unreadable]) :
          unreadable \in SUBSET {CodeFile, DocFile},
          env \in {DefaultEnv, [DefaultEnv EXCEPT !.countOk = FALSE]}}
  \cup {Case(Args(NoValue, NoValue, Str(RootPath), NoValue), env) :
          env \in EmbedFaults(1..MaxFailAt)
                  \cup {[DefaultEnv EXCEPT !.addOk = FALSE, !.thrown = t] :
                          t \in ExternalThrowables}}

IndexCall ==
  /\ phase = "connected"
  /\ \E c \in IndexCases : CallTool("index_codebase", c.args, c.env)

StatsCall ==
  /\ phase = "connected"
  /\ \E countOk \in BOOLEAN :
       CallTool("get_index_stats", NoArgs,
                [DefaultEnv EXCEPT !.countOk = countOk])

ClearCases ==
  {Case(NoArgs, DefaultEnv)}
  \cup {Case(Args(NoValue, NoValue, NoValue, confirm),
             [DefaultEnv EXCEPT !.deleteOk = deleteOk]) :
          confirm \in {Bool(TRUE), Bool(FALSE), NoValue}, deleteOk \in BOOLEAN}

ClearCall ==
  /\ phase = "connected"
  /\ \E c \in ClearCases : CallTool("clear_index", c.args, c.env)

UnknownCall ==
  /\ phase = "connected"
  /\ CallTool("no_such_tool", NoArgs, DefaultEnv)

\* The code file is rewritten on disk.
EditFile ==
  /\ \E c \in CodeContents :
       /\ fs[CodeFile] # File(c)
       /\ fs' = [fs EXCEPT ![CodeFile] = File(c)]
  /\ UNCHANGED <<chunkVars, serverVars, storeKind, dbExists, dbDocs, observedVars,
                 benchVars, cliVars>>

-----------------------------------------------------------------------------
\* The command-line indexer (IndexingCLI): one process, started with its
\* arguments, against the same database and directory.

\* Most watch events delivered to one watching process.
MaxEvents == 2

NoOptions == [path |-> Str(""), force |-> FALSE, watch |-> FALSE,
              verbose |-> FALSE, help |-> FALSE]

\* parseArgs: the loop over the arguments from position i. `--path` takes
\* the next argument, whatever it is, and undefined at the end of the list;
\* `--help` prints the usage and exits with status 0 on the spot.
RECURSIVE parseArgsFrom(_, _, _)
parseArgsFrom(args, i, options) ==
  IF i > Len(args) THEN options
  ELSE CASE args[i] = "--path" ->
              parseArgsFrom(args, i + 2,
                            [options EXCEPT !.path = IF i + 1 <= Len(args)
                                                     THEN Str(args[i + 1])
                                                     ELSE NoValue])
         [] args[i] = "--force" ->
              parseArgsFrom(args, i + 1, [options EXCEPT !.force = TRUE])
         [] args[i] = "--watch" ->
              parseArgsFrom(args, i + 1, [options EXCEPT !.watch = TRUE])
         [] args[i] \in {"--verbose", "-v"} ->
              parseArgsFrom(args, i + 1, [options EXCEPT !.verbose = TRUE])
         [] args[i] \in {"--help", "-h"} -> [options EXCEPT !.help = TRUE]
         [] OTHER -> parseArgsFrom(args, i + 1, options)

parseArgs(argv) == parseArgsFrom(argv, 1, NoOptions)

\* The command lines the indexer is started with.
Argvs ==
  { <<>>,
    <<"--help">>,
    <<"--path">>,
    <<"--watch">>,
    <<"--path", RootPath>>,
    <<"--path", MissingPath>>,
    <<"--force", "--path", RootPath, "-v">>,
    <<"--path", RootPath, "--watch">>,
    <<"--path", "--watch">> }

NoStep == [op |-> "", before |-> [exists |-> FALSE, docs |-> EmptyDocs],
           calls |-> <<>>, thrown |-> NoThrow]

\* What a step of run leaves on record.
StepRecord(op, outcome) ==
  [op |-> op, before |-> [exists |-> dbExists, docs |-> dbDocs],
   calls |-> outcome.w.calls, thrown |-> outcome.thrown]

\* The indexer's variables while another process runs.
CliIdle ==
  /\ cliArgv = <<>>
  /\ cliPc = "absent"
  /\ cliOptions = NoOptions
  /\ cliExit = 0
  /\ cliOps = <<>>
  /\ cliLast = NoStep

\* new IndexingCLI(), about to run.
CliInit ==
  /\ cliArgv \in Argvs
  /\ cliPc = "start"
  /\ cliOptions = NoOptions
  /\ cliExit = 0
  /\ cliOps = <<>>
  /\ cliLast = NoStep
  /\ phase = "none"
  /\ isReady = FALSE
  /\ isInitialized = FALSE
  /\ embedder = FALSE
  /\ collection = FALSE
  /\ storeKind \in StoreKinds
  /\ dbExists \in BOOLEAN
  /\ dbDocs \in (IF dbExists THEN {EmptyDocs, PriorDocs} ELSE {EmptyDocs})
  /\ fs \in {[f \in {CodeFile, DocFile} |->
                IF f = CodeFile THEN File(c) ELSE File(DocContent)] :
             c \in CodeContents}
  /\ response = NoResponse
  /\ last = NoCall
  /\ idxLast = NoRun
  /\ idxRepeat = NoRepeat

\* process.exit(status), or the end of the process when run has returned.
Exit(status) ==
  /\ cliPc' = "exited"
  /\ cliExit' = status

\* run, up to the choice of the mode: parse the arguments, insist on a
\* path, initialize the vector store.
CliRun ==
  /\ cliPc = "start"
  /\ \E options \in {parseArgs(cliArgv)}, env \in StartEnvs :
       /\ cliOptions' = options
       /\ IF options.help
          THEN Exit(0) /\ UNCHANGED <<serverVars, dbExists, dbDocs, cliLast>>
          ELSE IF ~Truthy(options.path)
          THEN Exit(1) /\ UNCHANGED <<serverVars, dbExists, dbDocs, cliLast>>
          ELSE \E started \in {vsInitialize(World, env)} :
                 /\ Leaves(started.w)
                 /\ cliLast' = StepRecord("initialize", started)
                 /\ UNCHANGED phase
                 /\ IF started.thrown.isThrown THEN Exit(1)
                    ELSE /\ cliPc' = IF options.watch THEN "watching"
                                     ELSE "indexing"
                         /\ UNCHANGED cliExit
  /\ UNCHANGED <<chunkVars, storeKind, fs, observedVars, benchVars, cliArgv,
                 cliOps>>

\* indexOnce.
indexOnce(w, options, dir, env) ==
  IF ~Accessible(Resolve(options.path.str))
  THEN Threw(w, Error(<<"Directory does not exist: ", Resolve(options.path.str)>>))
  ELSE
    Bind(processCodebase(dir, env.unreadable), LAMBDA documents :
      IF Len(documents) = 0
      THEN Returned(Globbed(w, Resolve(options.path.str)), <<>>)
      ELSE
        Bind(addDocuments(Globbed(w, Resolve(options.path.str)), documents, env),
             LAMBDA added :
          IF added.thrown.isThrown THEN added
          ELSE Bind(getCount(added.w, env), LAMBDA totalCount :
                 Returned(totalCount.w, <<Len(documents), totalCount.value>>))))

\* What the environment does during a run of the indexer.
CliEnvs ==
  {[env EXCEPT !.unreadable = unreadable] :
     unreadable \in {{}, {CodeFile}},
     env \in {DefaultEnv,
              [DefaultEnv EXCEPT !.countOk = FALSE],
              [DefaultEnv EXCEPT !.embedFailAt = 1],
              [DefaultEnv EXCEPT !.addOk = FALSE]}}

\* run in one-shot mode: indexOnce, then the end of the process; an
\* exception is logged and the process exits with status 1.
CliIndexOnce ==
  /\ cliPc = "indexing"
  /\ \E env \in CliEnvs :
     \E indexed \in {indexOnce(World, cliOptions, fs, env)} :
       /\ Leaves(indexed.w)
       /\ cliLast' = StepRecord("indexOnce", indexed)
       /\ Exit(IF indexed.thrown.isThrown THEN 1 ELSE 0)
  /\ UNCHANGED <<chunkVars, phase, storeKind, fs, observedVars, benchVars,
                 cliArgv, cliOptions, cliOps>>

\* An indexFile operation: the file of its event, where it stands, whether
\* the file could be read when the root was chunked, the documents it is
\* writing and what it caught.
Operation(file) ==
  [file |-> file, pc |-> "chunking", read |-> TRUE, docs |-> <<>>,
   thrown |-> NoThrow]

\* watcher.on('add' | 'change'): the handler is called with the file and
\* starts indexFile; with ignoreInitial: false every file already there is
\* reported as added. The watcher reports every file under the path that its
\* ignore list does not name, whatever its extension. Handlers are not queued behind one another.
WatchEvent ==
  /\ cliPc = "watching"
  /\ Accessible(Resolve(cliOptions.path.str))
  /\ Len(cliOps) < MaxEvents
  /\ \E file \in {CodeFile, DocFile, OtherFile} :
       /\ IF file = OtherFile THEN TRUE ELSE fs[file].exists
       /\ cliOps' = Append(cliOps, Operation(file))
  /\ UNCHANGED <<chunkVars, serverVars, worldVars, observedVars, benchVars,
                 cliArgv, cliPc, cliOptions, cliExit, cliLast>>

\* Fault variant of relevantDocs: the documents of the whole root are kept.
relevantDocsAll(documents, file) == documents

\* documents.filter(doc => doc.metadata.filepath === path.relative(...)).
relevantDocs(documents, file) ==
  SelectSeq(documents, LAMBDA doc : doc.metadata.filepath = file)

\* indexFile up to its call of addDocuments: the whole root is chunked, the
\* documents of the file are kept, and addDocuments starts if there are any.
IndexFileChunk ==
  /\ cliPc = "watching"
  /\ \E i \in 1..Len(cliOps), unreadable \in {{}, {CodeFile}} :
       /\ cliOps[i].pc = "chunking"
       /\ \E docs \in {relevantDocs(processCodebase(fs, unreadable),
                                     cliOps[i].file)} :
            cliOps' = [cliOps EXCEPT ![i].docs = docs,
                                     ![i].read = cliOps[i].file \notin unreadable,
                                     ![i].pc = IF Len(docs) > 0 THEN "writing"
                                               ELSE "done"]
  /\ UNCHANGED <<chunkVars, serverVars, worldVars, observedVars, benchVars,
                 cliArgv, cliPc, cliOptions, cliExit, cliLast>>

\* The rest of indexFile: addDocuments completes or throws; what it throws
\* is caught and logged, and the process goes on watching.
IndexFileWrite ==
  /\ cliPc = "watching"
  /\ \E i \in 1..Len(cliOps), env \in CliEnvs :
       /\ cliOps[i].pc = "writing"
       /\ env.unreadable = {}
       /\ \E added \in {addDocuments(World, cliOps[i].docs, env)} :
            /\ Leaves(added.w)
            /\ cliOps' = [cliOps EXCEPT ![i].pc = "done",
                                        ![i].thrown = added.thrown]
  /\ UNCHANGED <<chunkVars, phase, storeKind, fs, observedVars, benchVars,
                 cliArgv, cliPc, cliOptions, cliExit, cliLast>>

\* process.on('SIGINT'): the watcher is closed and the process exits with
\* status 0.
Interrupt ==
  /\ cliPc = "watching"
  /\ Exit(0)
  /\ UNCHANGED <<chunkVars, serverVars, worldVars, observedVars, benchVars,
                 cliArgv, cliOptions, cliOps, cliLast>>

\* The chunker's variables while the server runs.
ChunkIdle ==
  /\ cFile = [language |-> "text", lines |-> << <<>> >>]
  /\ cPc = "idle"
  /\ cChunks = <<>>
  /\ cDocs = <<>>

\* The benchmark's variables while it does not run.
BenchIdle ==
  /\ cache = <<>>
  /\ cacheHits = 0
  /\ cacheMisses = 0
  /\ requests = <<>>

\* One process runs against the database and the directory: the server, or
\* the command-line indexer.
Init ==
  /\ (ServerInit /\ CliIdle) \/ CliInit
  /\ ChunkIdle
  /\ BenchIdle

Next ==
  \/ Start
  \/ SearchCall
  \/ IndexCall
  \/ StatsCall
  \/ ClearCall
  \/ UnknownCall
  \/ EditFile
  \/ CliRun
  \/ CliIndexOnce
  \/ WatchEvent
  \/ IndexFileChunk
  \/ IndexFileWrite
  \/ Interrupt

Spec == Init /\ [][Next]_vars

-----------------------------------------------------------------------------
\* The chunker on its own: every file of at most MaxLines lines drawn from
\* CatalogueLines, in every modelled language.

CatalogueLines ==
  { <<>>,
    <<" ">>,
    <<"}">>,
    <<"a", " ", "b", "(", ")", "{">>,
    <<"d", "e", "f", " ", "f">>,
    <<"c", "l", "a", "s", "s", " ", "A">> }

Languages == {"typescript", "python", "java", "cpp", "markdown", "text"}

RECURSIVE LineSeqs(_, _)
LineSeqs(n, catalogue) ==
  IF n = 0 THEN {<<>>}
  ELSE {Append(s, l) : s \in LineSeqs(n - 1, catalogue), l \in catalogue}

\* Every file of at most MaxLines catalogue lines, and every file of one line
\* more whose lines hold at most one character (a window then spans more
\* lines than the overlap).
FileLines ==
  UNION {LineSeqs(n, CatalogueLines) : n \in 1..MaxLines}
    \cup LineSeqs(MaxLines + 1, {l \in CatalogueLines : Len(l) <= 1})

ChunkFilePath == "f"

\* The server's variables while the chunker is run on its own.
ServerIdle ==
  /\ phase = "constructed"
  /\ isReady = FALSE
  /\ isInitialized = FALSE
  /\ embedder = FALSE
  /\ collection = FALSE
  /\ storeKind = "upsert"
  /\ dbExists = FALSE
  /\ dbDocs = EmptyDocs
  /\ fs = [f \in {CodeFile, DocFile} |-> NoFile]
  /\ response = NoResponse
  /\ last = NoCall
  /\ idxLast = NoRun
  /\ idxRepeat = NoRepeat

ChunkInit ==
  /\ cFile \in [language : Languages, lines : FileLines]
  /\ cPc = "ready"
  /\ cChunks = <<>>
  /\ cDocs = <<>>
  /\ ServerIdle
  /\ BenchIdle
  /\ CliIdle

ChunkTextCall ==
  /\ cPc = "ready"
  /\ cChunks' = chunkText(ContentOf(cFile.lines))
  /\ cPc' = "chunked"
  /\ UNCHANGED <<cFile, cDocs, serverVars, worldVars, observedVars, benchVars, cliVars>>

ProcessFileCall ==
  /\ cPc = "chunked"
  /\ cDocs' = processFile(ContentOf(cFile.lines), ChunkFilePath, cFile.language)
  /\ cPc' = "done"
  /\ UNCHANGED <<cFile, cChunks, serverVars, worldVars, observedVars, benchVars, cliVars>>

ChunkNext == ChunkTextCall \/ ProcessFileCall

ChunkSpec == ChunkInit /\ [][ChunkNext]_vars

-----------------------------------------------------------------------------
\* The benchmark's embedding cache (scripts/enhanced-benchmark.ts): the calls
\* of cachedEmbedding made by one benchmark process, each awaited before the
\* next is made.

\* Most calls of cachedEmbedding in one run.
MaxCalls == 4

\* The texts the benchmark embeds: queries and document contents.
Texts == {"auth", "db", "api"}

\* `embed_${text}`.
CacheKey(text) == <<"embed_", text>>

\* Array.from(output.data): the array built from the output of the n-th call
\* of the embedding pipeline.
Embedding(text, n) == [of |-> text, call |-> n]

NoEmbedding == [of |-> "", call |-> 0]

\* The benchmark object: its cache, its counters and the number of calls it
\* has made to the embedding pipeline.
Bench == [cache |-> cache, hits |-> cacheHits, misses |-> cacheMisses,
          external |-> Cardinality({k \in 1..Len(requests) : requests[k].external})]

\* Map.set(key, value).
MapSet(map, key, value) ==
  [k \in DOMAIN map \cup {key} |-> IF k = key THEN value ELSE map[k]]

\* Fault variant: a miss returns the embedding without storing it.
cachedEmbeddingUnstored(b, text, embedderOk) ==
  IF CacheKey(text) \in DOMAIN b.cache
  THEN [b |-> [b EXCEPT !.hits = @ + 1], thrown |-> FALSE,
        value |-> b.cache[CacheKey(text)]]
  ELSE IF ~embedderOk
  THEN [b |-> [b EXCEPT !.misses = @ + 1, !.external = @ + 1],
        thrown |-> TRUE, value |-> NoEmbedding]
  ELSE [b |-> [b EXCEPT !.misses = @ + 1, !.external = @ + 1],
        thrown |-> FALSE, value |-> Embedding(text, b.external + 1)]

\* cachedEmbedding: a hit returns the cached vector; a miss calls the
\* embedding pipeline and, when the pipeline returns, stores and returns the
\* vector. When the pipeline throws, the call rejects and nothing is stored.
cachedEmbedding(b, text, embedderOk) ==
  IF CacheKey(text) \in DOMAIN b.cache
  THEN [b |-> [b EXCEPT !.hits = @ + 1], thrown |-> FALSE,
        value |-> b.cache[CacheKey(text)]]
  ELSE IF ~embedderOk
  THEN [b |-> [b EXCEPT !.misses = @ + 1, !.external = @ + 1],
        thrown |-> TRUE, value |-> NoEmbedding]
  ELSE [b |-> [b EXCEPT !.misses = @ + 1, !.external = @ + 1,
                        !.cache = MapSet(@, CacheKey(text),
                                         Embedding(text, b.external + 1))],
        thrown |-> FALSE, value |-> Embedding(text, b.external + 1)]

CacheInit ==
  /\ BenchIdle
  /\ ServerIdle
  /\ ChunkIdle
  /\ CliIdle

\* One awaited call of cachedEmbedding, by the search scenario or by the
\* indexing loop.
CachedEmbeddingCall ==
  /\ Len(requests) < MaxCalls
  /\ \E text \in Texts, embedderOk \in BOOLEAN :
     \E called \in {cachedEmbedding(Bench, text, embedderOk)} :
       /\ cache' = called.b.cache
       /\ cacheHits' = called.b.hits
       /\ cacheMisses' = called.b.misses
       /\ requests' = Append(requests,
                             [text |-> text, thrown |-> called.thrown,
                              value |-> called.value,
                              external |-> called.b.external # Bench.external])
  /\ UNCHANGED <<chunkVars, serverVars, worldVars, observedVars, cliVars>>

CacheNext == CachedEmbeddingCall

CacheSpec == CacheInit /\ [][CacheNext]_vars

-----------------------------------------------------------------------------
\* Properties of the server (Spec).

IsDeleteCall(call) == call.op \in {"deleteCollection", "rm cache"}

ValidQuery == Str("find")

\* C1: every tool call, whatever its name, arguments or failures, resolves to
\* a result whose content is one text item; when the handling threw, the text
\* is 'Error: ' followed by the thrown Error's message.
C1_TextResultAlways ==
  last.tool # "" =>
    /\ Len(response.content) = 1
    /\ response.content[1].type = "text"
    /\ last.thrown.isThrown =>
         /\ response.content[1].text[1] = "Error: "
         /\ last.thrown.isError =>
              response.content[1].text[2] = last.thrown.message

\* A call to index_codebase during which an external call threw.
C1_FailedCallAnswered ==
  /\ last.tool = "index_codebase"
  /\ last.faulty
  /\ last.thrown.isThrown
  /\ response.content[1].text[1] = "Error: "

\* C2: clear_index with confirm = false returns the cancellation message,
\* issues no delete to the store or the cache, and leaves the collection and
\* its document count as they were.
C2_CancelLeavesStore ==
  (last.tool = "clear_index" /\ last.args.given
     /\ last.args.confirm = Bool(FALSE)) =>
    /\ response = TextResult(CancelledText)
    /\ \A k \in 1..Len(last.calls) : ~IsDeleteCall(last.calls[k])
    /\ DocCount(dbDocs) = last.before.count
    /\ dbExists = last.before.exists

\* clear_index with confirm = false was called on an index that holds
\* documents.
C2_CancelledOnFilledIndex ==
  /\ last.tool = "clear_index"
  /\ last.args.given
  /\ last.args.confirm = Bool(FALSE)
  /\ last.before.count > 0
  /\ response = TextResult(CancelledText)

\* C3: whenever clear_index with confirm = true returns the cleared
\* confirmation, the store holds zero documents afterwards.
C3_ClearedMeansEmpty ==
  (last.tool = "clear_index" /\ last.args.given
     /\ last.args.confirm = Bool(TRUE)
     /\ response = TextResult(ClearedText)) =>
    DocCount(dbDocs) = 0

\* C4: search_codebase with a valid query on an index that holds no document,
\* while no external call fails, returns the 'No results found' message and
\* never an error payload.
C4_EmptyIndexNoResults ==
  (last.tool = "search_codebase" /\ last.args.given
     /\ last.args.query = ValidQuery
     /\ ~last.faulty
     /\ last.before.count = 0) =>
    response = TextResult(NoResultsText)

\* C5: the number of results search_codebase requests from the store lies in
\* 1..20, and is 5 when limit is omitted.
C5_ForwardedLimitInRange ==
  last.tool = "search_codebase" =>
    \A k \in 1..Len(last.calls) :
      last.calls[k].op = "query" =>
        /\ last.calls[k].n \in 1..20
        /\ last.args.limit.type = "undefined" => last.calls[k].n = 5

-----------------------------------------------------------------------------
\* Properties of the chunker (ChunkSpec).

FileContent == ContentOf(cFile.lines)

Covered(n) ==
  \E k \in 1..Len(cChunks) :
    cChunks[k].lines.start <= n /\ n <= cChunks[k].lines.end

\* C7: the documents produced for one file have pairwise distinct ids.
C7_IdsDistinct == cPc = "done" => ~HasRepeatedId(cDocs)

\* C8: every chunk emitted for a file, structural or windowed, has non-empty
\* content of length at most maxChunkSize.
C8_ChunksWithinSize ==
  /\ cPc # "ready" =>
       \A k \in 1..Len(cChunks) :
         cChunks[k].content # <<>> /\ Len(cChunks[k].content) <= maxChunkSize
  /\ cPc = "done" =>
       \A k \in 1..Len(cDocs) :
         cDocs[k].content # <<>> /\ Len(cDocs[k].content) <= maxChunkSize

\* C9 as stated: for content shorter than maxChunkSize, chunkText returns
\* exactly one chunk, equal to the trimmed content.
C9_ShortContentOneChunk ==
  (cPc # "ready" /\ Len(FileContent) < maxChunkSize) =>
    /\ Len(cChunks) = 1
    /\ cChunks[1].content = Trim(FileContent)

\* C9, amended: for content shorter than maxChunkSize that holds at least one
\* character that is not whitespace, chunkText returns exactly one chunk,
\* equal to the trimmed content.
C9_ShortNonBlankOneChunk ==
  (cPc # "ready" /\ Len(FileContent) < maxChunkSize
     /\ Trim(FileContent) # <<>>) =>
    /\ Len(cChunks) = 1
    /\ cChunks[1].content = Trim(FileContent)

\* A short file of several lines whose trimmed content differs from its
\* content has been chunked.
C9_ShortFileChunked ==
  /\ cPc = "chunked"
  /\ Len(cFile.lines) >= 2
  /\ Len(FileContent) < maxChunkSize
  /\ Trim(FileContent) # <<>>
  /\ Trim(FileContent) # FileContent

IsWindowed(doc) == doc.id[2] \in {"chunk", "doc"}

WindowedCount == Cardinality({k \in 1..Len(cDocs) : IsWindowed(cDocs[k])})

\* C11: a file of zero-length content, in any language, contributes no
\* document: processFile returns the empty list.
C11_EmptyFileNoDocuments ==
  (cPc = "done" /\ FileContent = <<>>) => cDocs = <<>>

\* The empty documentation file has been processed.
C11_EmptyDocFileProcessed ==
  /\ cPc = "done"
  /\ FileContent = <<>>
  /\ cFile.language = "markdown"
  /\ cChunks = <<>>

\* C12 as stated: a non-empty file whose content is shorter than maxChunkSize
\* contributes exactly one document.
C12_ShortFileOneDocument ==
  (cPc = "done" /\ FileContent # <<>> /\ Len(FileContent) < maxChunkSize) =>
    Len(cDocs) = 1

\* C12, amended: a file shorter than maxChunkSize that holds a character
\* that is not whitespace contributes exactly one windowed document; every
\* other document of it is a detected function or class, and a documentation
\* file contributes that one document only.
C12_ShortFileOneWindowedDocument ==
  (cPc = "done" /\ Len(FileContent) < maxChunkSize
     /\ Trim(FileContent) # <<>>) =>
    /\ WindowedCount = 1
    /\ \A k \in 1..Len(cDocs) :
         IsWindowed(cDocs[k]) \/ cDocs[k].id[2] \in {"function", "class"}
    /\ cFile.language = "markdown" => Len(cDocs) = 1

\* A short code file in which a function is detected has been processed.
C12_ShortCodeFileProcessed ==
  /\ cPc = "done"
  /\ Len(FileContent) < maxChunkSize
  /\ cFile.language = "python"
  /\ Len(cDocs) = 2
  /\ WindowedCount = 1

\* The document processFile builds from the k-th windowed chunk.
ChunkDocumentAs(kind, type, k) ==
  [id |-> <<ChunkFilePath, kind, IndexString(k - 1)>>,
   content |-> cChunks[k].content,
   metadata |-> [filepath |-> ChunkFilePath, type |-> type,
                 language |-> cFile.language, lines |-> cChunks[k].lines,
                 function |-> Undefined, class |-> Undefined]]

\* C22: a markdown or plain-text file yields exactly one document per
\* windowed chunk, in chunk order, with type 'doc', id '<path>:doc:<i>' for
\* i = 0..n-1 and no function or class; in every other language the windowed
\* chunks follow the structural documents and the i-th of them has id
\* '<path>:chunk:<i>' and type 'code'.
C22_WindowedDocumentsPerChunk ==
  cPc = "done" =>
    IF cFile.language \in {"markdown", "text"}
    THEN /\ Len(cDocs) = Len(cChunks)
         /\ \A k \in 1..Len(cChunks) : cDocs[k] = ChunkDocumentAs("doc", "doc", k)
    ELSE /\ Len(cDocs) >= Len(cChunks)
         /\ \A k \in 1..Len(cChunks) :
              cDocs[Len(cDocs) - Len(cChunks) + k]
                = ChunkDocumentAs("chunk", "code", k)
         /\ \A k \in 1..(Len(cDocs) - Len(cChunks)) :
              cDocs[k].id[2] \in {"function", "class"}

\* A markdown file that holds a line a code file would yield a function for
\* has been processed into several documents.
C22_DocFileOfSeveralChunks ==
  /\ cPc = "done"
  /\ cFile.language = "markdown"
  /\ Len(cChunks) >= 2
  /\ \E n \in 1..Len(cFile.lines) : cFile.lines[n] = <<"d", "e", "f", " ", "f">>

\* The brace depth after line k, counted from line s on.
RECURSIVE DepthThrough(_, _)
DepthThrough(s, k) ==
  IF k < s THEN 0 ELSE DepthThrough(s, k - 1) + BraceDelta(cFile.lines[k])

\* The line at which the block detected at line s ends.
BlockEnd(s) ==
  LET closing == {k \in s..Len(cFile.lines) : DepthThrough(s, k) <= 0}
  IN IF closing = {} THEN Len(cFile.lines)
     ELSE CHOOSE k \in closing : \A m \in closing : k <= m

IsStructural(doc) == doc.id[2] \in {"function", "class"}

\* C23: the block extracted at detection line s is the lines s..e, where e is
\* the first line from s on after which the brace depth counted from line s
\* is no longer positive (e = s when it is not positive after line s), and
\* the last line of the file when the depth stays positive.
C23_BlockEndsWhereDepthReturns ==
  cPc = "done" =>
    \A k \in 1..Len(cDocs) :
      IsStructural(cDocs[k]) =>
        /\ cDocs[k].metadata.lines.end = BlockEnd(cDocs[k].metadata.lines.start)
        /\ cDocs[k].content
             = Join(SubSeq(cFile.lines, cDocs[k].metadata.lines.start,
                           cDocs[k].metadata.lines.end), NL)

\* A file has been processed in which one block closes before the end of the
\* file and another is never closed.
C23_ClosedAndOpenBlocks ==
  /\ cPc = "done"
  /\ \E k \in 1..Len(cDocs) :
       /\ IsStructural(cDocs[k])
       /\ cDocs[k].metadata.lines.start < cDocs[k].metadata.lines.end
       /\ cDocs[k].metadata.lines.end < Len(cFile.lines)
  /\ \E k \in 1..Len(cDocs) :
       /\ IsStructural(cDocs[k])
       /\ DepthThrough(cDocs[k].metadata.lines.start, Len(cFile.lines)) > 0

\* C26: the content of every chunk of chunkText with line range [start, end]
\* is the file's lines start..end joined with newlines and trimmed; no two
\* adjacent lines are joined without a newline between them.
C26_ChunkIsItsLines ==
  cPc # "ready" =>
    \A k \in 1..Len(cChunks) :
      cChunks[k].content
        = Trim(Join(SubSeq(cFile.lines, cChunks[k].lines.start,
                           cChunks[k].lines.end), NL))

\* C29: every document of a file of n lines, structural or windowed, carries
\* a line range with 1 <= start <= end <= n, and so does every chunk.
C29_LineRangesWithinFile ==
  /\ cPc # "ready" =>
       \A k \in 1..Len(cChunks) :
         /\ 1 <= cChunks[k].lines.start
         /\ cChunks[k].lines.start <= cChunks[k].lines.end
         /\ cChunks[k].lines.end <= Len(Split(FileContent))
  /\ cPc = "done" =>
       \A k \in 1..Len(cDocs) :
         /\ 1 <= cDocs[k].metadata.lines.start
         /\ cDocs[k].metadata.lines.start <= cDocs[k].metadata.lines.end
         /\ cDocs[k].metadata.lines.end <= Len(Split(FileContent))

\* A file has been processed into a structural document and several chunks,
\* the later of which start with overlap lines.
C29_OverlappingChunksAndBlock ==
  /\ cPc = "done"
  /\ \E k \in 1..Len(cDocs) : IsStructural(cDocs[k])
  /\ Len(cChunks) >= 2
  /\ \E k \in 2..Len(cChunks) : cChunks[k].lines.start <= cChunks[k - 1].lines.end

AllCallsReturned(calls) == \A k \in 1..Len(calls) : calls[k].ok

Scores ==
  {response.content[1].text[4][k].score :
     k \in 1..Len(response.content[1].text[4])}

FoundResults ==
  /\ last.tool = "search_codebase"
  /\ ~last.thrown.isThrown
  /\ response.content[1].text[1] = "Found "

\* C14: every result of a search carries a score between 0 and 1, whatever
\* distance the store reports for it, a missing distance included.
C14_ScoreInUnitInterval ==
  FoundResults => \A score \in Scores : 0 <= score /\ score <= 1

\* C15: a tool call during which an external call (store or embedding model)
\* failed is aborted and answered with an error text, never with a success
\* message or a document count.
C15_FailedCallAborts ==
  (last.tool # "" /\ ~AllCallsReturned(last.calls)) =>
    /\ last.thrown.isThrown
    /\ response.content[1].text[1] = "Error: "

\* The documents of one file of the directory, as processFile chunks it.
DocumentsOfFile(dir, file) ==
  IF dir[file].exists
  THEN processFile(ContentOf(dir[file].lines), file, LanguageOf(file))
  ELSE <<>>

\* The ids of the documents of the files that can be read, file by file in
\* file order.
ReadableIds(dir, unreadable) ==
  Ids((IF CodeFile \in unreadable THEN <<>> ELSE DocumentsOfFile(dir, CodeFile))
      \o (IF DocFile \in unreadable THEN <<>> ELSE DocumentsOfFile(dir, DocFile)))

\* C16: a file whose read throws contributes no documents and does not abort
\* the run: an index_codebase call whose external calls all return does not
\* throw, and hands the store exactly the documents of every other file, in
\* file order.
C16_BadFileSkipped ==
  [][(/\ fs' = fs
      /\ last'.tool = "index_codebase"
      /\ ReachedChunking(last'.args)
      /\ AllCallsReturned(last'.calls)) =>
       /\ ~last'.thrown.isThrown
       /\ AddedIdsFrom(last'.calls, 1) = ReadableIds(fs, last'.unreadable)]_vars

\* index_codebase ran while the code file could not be read, and wrote the
\* documents of the other file.
C16_IndexedPastBadFile ==
  /\ last.tool = "index_codebase"
  /\ last.unreadable = {CodeFile}
  /\ ~last.thrown.isThrown
  /\ AllCallsReturned(last.calls)
  /\ AddedIdsFrom(last.calls, 1) # <<>>
  /\ \A k \in 1..Len(AddedIdsFrom(last.calls, 1)) :
       AddedIdsFrom(last.calls, 1)[k][1] = DocFile

\* C19: the adapter resolves embeddings cache-first: a text that was handed
\* to the embedding model earlier is not handed to it again.
C19_NoTextEmbeddedTwice ==
  \A j, k \in 1..Len(last.calls) :
    (j < k /\ last.calls[j].op = "embed" /\ last.calls[k].op = "embed") =>
      last.calls[j].text # last.calls[k].text

\* The calls of cachedEmbedding that reached the embedding pipeline.
ExternalCalls == {k \in 1..Len(requests) : requests[k].external}

\* C18 as stated: a second call with the same text makes no external call
\* and returns the first call's vector, and the number of external calls
\* equals the number of distinct texts requested.
C18_OneExternalCallPerText ==
  /\ \A j, k \in 1..Len(requests) :
       (j < k /\ requests[j].text = requests[k].text) =>
         /\ ~requests[k].external
         /\ ~requests[k].thrown
         /\ requests[k].value = requests[j].value
  /\ Cardinality(ExternalCalls)
       = Cardinality({requests[k].text : k \in 1..Len(requests)})

\* C18, amended: once a call has returned a vector for a text, every later
\* call with that text makes no external call and returns that same vector,
\* and the number of external calls that returned equals the number of
\* distinct texts for which a vector was returned; a call whose external call
\* threw stores nothing, so its text is embedded again when next requested.
C18_OneReturnedEmbeddingPerText ==
  /\ \A j, k \in 1..Len(requests) :
       (j < k /\ requests[j].text = requests[k].text /\ ~requests[j].thrown) =>
         /\ ~requests[k].external
         /\ ~requests[k].thrown
         /\ requests[k].value = requests[j].value
  /\ \A k \in 1..Len(requests) :
       requests[k].thrown => requests[k].external
  /\ Cardinality({k \in ExternalCalls : ~requests[k].thrown})
       = Cardinality({requests[k].text :
                        k \in {j \in 1..Len(requests) : ~requests[j].thrown}})
  /\ cacheHits + cacheMisses = Len(requests)
  /\ cacheMisses = Cardinality(ExternalCalls)

\* A text was embedded, another was requested in between, and the first was
\* requested again and served from the cache.
C18_SameTextTwice ==
  /\ Len(requests) >= 3
  /\ requests[1].text = requests[3].text
  /\ requests[2].text # requests[1].text
  /\ ~requests[1].thrown /\ ~requests[2].thrown
  /\ cacheHits = 1

-----------------------------------------------------------------------------
\* Properties of the command-line indexer (Spec).

\* An exception was raised while indexing: by a step of run, or inside an
\* indexFile operation.
IndexingException ==
  \/ cliLast.thrown.isThrown
  \/ \E i \in 1..Len(cliOps) : cliOps[i].thrown.isThrown

\* C13: the indexer exits with a non-zero status when --path is missing and
\* whenever an indexing exception occurs, in one-shot mode and in watch mode,
\* an exception raised while indexing a file after a watch event included.
C13_FailureExitsNonZero ==
  /\ (cliPc \notin {"absent", "start"} /\ ~cliOptions.help
        /\ ~Truthy(cliOptions.path)) =>
       (cliPc = "exited" /\ cliExit # 0)
  /\ IndexingException => (cliPc = "exited" /\ cliExit # 0)

MissingRootMessage == <<"Directory does not exist: ", MissingPath>>

\* C17: indexing a root path that does not exist, by index_codebase or by the
\* indexer's indexOnce, fails with 'Directory does not exist: <path>' without
\* any external call, hence before any file is chunked and before any write
\* to the store, and leaves the store as it was.
C17_MissingRootFailsFirst ==
  /\ (last.tool = "index_codebase" /\ last.args.given
        /\ last.args.path = Str(MissingPath)) =>
       /\ last.thrown = Error(MissingRootMessage)
       /\ response = ErrorResult(Error(MissingRootMessage))
       /\ last.calls = <<>>
       /\ dbExists = last.before.exists
       /\ DocCount(dbDocs) = last.before.count
  /\ (cliLast.op = "indexOnce" /\ cliOptions.path = Str(MissingPath)) =>
       /\ cliLast.thrown = Error(MissingRootMessage)
       /\ cliLast.calls = <<>>
       /\ dbExists = cliLast.before.exists
       /\ dbDocs = cliLast.before.docs
       /\ cliPc = "exited" /\ cliExit = 1

\* index_codebase was called with a root path that does not exist while the
\* index held documents.
C17_MissingRootOnFilledIndex ==
  /\ last.tool = "index_codebase"
  /\ last.args.given
  /\ last.args.path = Str(MissingPath)
  /\ last.before.count > 0
  /\ last.thrown.isThrown

\* The indexFile operations that have started and not finished.
InProgress == {i \in 1..Len(cliOps) : cliOps[i].pc # "done"}

\* C20: at most one indexing operation is in progress at any moment, and an
\* operation's store write starts only after the store write of every
\* operation started before it has completed, also when watch events arrive
\* while an earlier event is still being processed.
C20_OneIndexingAtATime ==
  /\ Cardinality(InProgress) <= 1
  /\ \A i, j \in 1..Len(cliOps) :
       (i < j /\ cliOps[j].pc = "writing") => cliOps[i].pc = "done"

-----------------------------------------------------------------------------
\* Properties of searching, clearing and re-indexing (Spec).

\* What the k-th listed result shows of the document stored under id.
Listed(id, k) ==
  Bind(SearchResult(id, dbDocs[id], NoDistance),
       LAMBDA result :
         [n |-> k, file |-> result.metadata.filepath,
          lines |-> result.metadata.lines, type |-> result.metadata.type,
          language |-> result.metadata.language,
          function |-> result.metadata.function,
          class |-> result.metadata.class, content |-> result.content])

Shown(entry) ==
  [n |-> entry.n, file |-> entry.file, lines |-> entry.lines,
   type |-> entry.type, language |-> entry.language,
   function |-> entry.function, class |-> entry.class,
   content |-> entry.content]

\* C21: when the store answers a query with all of its fields, search
\* returns one result per id the store returned, in the store's order, and
\* search_codebase lists them as results 1..n in that order under the header
\* 'Found n relevant results'; with no id, it reports that nothing was found.
C21_ResultsInStoreOrder ==
  (last.tool = "search_codebase" /\ ~last.faulty /\ ~last.thrown.isThrown) =>
    \A c \in 1..Len(last.calls) :
      last.calls[c].op = "query" =>
        Bind(StoreQuery(dbDocs, last.calls[c].n),
             LAMBDA ids :
               IF ids = <<>> THEN response = TextResult(NoResultsText)
               ELSE /\ response.content[1].text[1] = "Found "
                    /\ response.content[1].text[2] = Len(ids)
                    /\ response.content[1].text[3] = " relevant results:"
                    /\ Len(response.content[1].text[4]) = Len(ids)
                    /\ \A k \in 1..Len(ids) :
                         Shown(response.content[1].text[4][k])
                           = Listed(ids[k], k))

\* A search has listed several results, the first of which is not the same
\* document as the last.
C21_SeveralResultsListed ==
  /\ FoundResults
  /\ ~last.faulty
  /\ response.content[1].text[2] >= 2
  /\ Shown(response.content[1].text[4][1]).content
       # Shown(response.content[1].text[4][response.content[1].text[2]]).content

\* An embedding call made during the call failed.
EmbeddingFailed(calls) ==
  \E k \in 1..Len(calls) : calls[k].op = "embed" /\ ~calls[k].ok

\* C27: when the embedding model fails for a document of the batch that
\* index_codebase hands to addDocuments, no write reaches the store, the
\* store is left as it was, and the call ends with the error.
C27_EmbeddingFailureWritesNothing ==
  [][(last'.tool = "index_codebase" /\ EmbeddingFailed(last'.calls)) =>
       /\ \A k \in 1..Len(last'.calls) : last'.calls[k].op # "add"
       /\ dbDocs' = dbDocs
       /\ dbExists' = dbExists
       /\ last'.thrown.isThrown
       /\ response'.content[1].text[1] = "Error: "]_vars

\* index_codebase failed on the embedding of the second document of its
\* batch, after the first was embedded, with documents already in the store.
C27_SecondEmbeddingFailed ==
  /\ last.tool = "index_codebase"
  /\ \E k \in 2..Len(last.calls) :
       /\ last.calls[k].op = "embed" /\ ~last.calls[k].ok
       /\ last.calls[k - 1].op = "embed" /\ last.calls[k - 1].ok
  /\ last.before.count > 0
  /\ DocCount(dbDocs) = last.before.count

\* The call embedded a document: it had documents to write.
Embedded(calls) == \E k \in 1..Len(calls) : calls[k].op = "embed"

\* C25: after clear_index has deleted the collection, an index_codebase call
\* on a directory that yields documents, during which no external call is
\* made to fail, succeeds with the 'Successfully indexed' summary, in the same
\* process.
C25_IndexSucceedsAfterClear ==
  (/\ phase = "connected"
   /\ last.tool = "index_codebase"
   /\ ~last.before.exists
   /\ ~last.faulty
   /\ Embedded(last.calls)) =>
    /\ ~last.thrown.isThrown
    /\ response.content[1].text[1] = "Successfully indexed "

\* What search returns for the id of the document is the document: the same
\* content and the same metadata, absent fields absent.
RoundTrips(doc, docs) ==
  /\ doc.id \in DOMAIN docs
  /\ SearchResult(doc.id, docs[doc.id], NoDistance).content = doc.content
  /\ SearchResult(doc.id, docs[doc.id], NoDistance).metadata = doc.metadata

\* C30: after an index_codebase call that handed its documents to
\* addDocuments and returned its summary, the result search builds for the
\* id of each of these documents has the document's content and metadata.
C30_MetadataRoundTrips ==
  [][(last'.tool = "index_codebase" /\ idxLast'.valid /\ fs' = fs) =>
       \A f \in {CodeFile, DocFile} :
         \A k \in 1..Len(DocumentsOfFile(fs, f)) :
           RoundTrips(DocumentsOfFile(fs, f)[k], dbDocs')]_vars

-----------------------------------------------------------------------------
\* Properties of watch mode (Spec).

\* The documents processFile yields for the file as it is.
FileDocuments(file) ==
  IF file = OtherFile
  THEN processFile(ContentOf(<< <<"a">> >>), OtherFile, LanguageOf(OtherFile))
  ELSE DocumentsOfFile(fs, file)

IsMatched(file) == \E k \in 1..Len(FileOrder) : FileOrder[k] = file

\* The operation leaves the chunking of the root in this step.
Chunked(i) == cliOps[i].pc = "chunking" /\ cliOps'[i].pc # "chunking"

\* The operation's addDocuments returns in this step.
Written(i) ==
  /\ cliOps[i].pc = "writing"
  /\ cliOps'[i].pc = "done"
  /\ ~cliOps'[i].thrown.isThrown

\* C24 as stated: for every add or change event for a file that can be read,
\* the documents handed to addDocuments are exactly the documents processFile
\* yields for the file.
C24_EventSubmitsFileDocuments ==
  [][\A i \in 1..Len(cliOps) :
       (Chunked(i) /\ cliOps'[i].read) =>
         cliOps'[i].docs = FileDocuments(cliOps[i].file)]_vars

\* C24, amended: for an add or change event for a file that findFiles
\* matches and that can be read, the documents handed to addDocuments are
\* exactly the documents processFile yields for the file as it is, and when
\* addDocuments returns they are in the store and no record of another file
\* has changed; for a file that findFiles does not match, or that cannot be
\* read, nothing is handed to addDocuments.
C24_MatchedFileDocumentsSubmitted ==
  [][\A i \in 1..Len(cliOps) :
       /\ Chunked(i) =>
            /\ cliOps'[i].docs
                 = IF IsMatched(cliOps[i].file) /\ cliOps'[i].read
                   THEN FileDocuments(cliOps[i].file) ELSE <<>>
            /\ cliOps'[i].pc = "done" <=> cliOps'[i].docs = <<>>
       /\ Written(i) =>
            /\ \A k \in 1..Len(cliOps[i].docs) :
                 cliOps[i].docs[k].id \in DOMAIN dbDocs'
            /\ \A id \in DOMAIN dbDocs' :
                 id[1] # cliOps[i].file =>
                   id \in DOMAIN dbDocs /\ dbDocs'[id] = dbDocs[id]]_vars

\* The watching process has written the documents of the code file while the
\* documentation file has documents of its own, and has handled an event for
\* the file that findFiles does not match.
C24_WatchedFilesHandled ==
  /\ cliPc = "watching"
  /\ DocumentsOfFile(fs, DocFile) # <<>>
  /\ \E i \in 1..Len(cliOps) :
       /\ cliOps[i].file = CodeFile
       /\ cliOps[i].pc = "done"
       /\ ~cliOps[i].thrown.isThrown
       /\ cliOps[i].docs # <<>>
  /\ \E i \in 1..Len(cliOps) :
       cliOps[i].file = OtherFile /\ cliOps[i].pc = "done"

\* The ids the store holds for the file.
StoredIdsOf(file) == {id \in DOMAIN dbDocs : id[1] = file}

\* Every event for the file has been handled, on the file as it is now, and
\* every write returned.
Settled(file) ==
  /\ \E i \in 1..Len(cliOps) : cliOps[i].file = file
  /\ \A i \in 1..Len(cliOps) :
       cliOps[i].file = file =>
         /\ cliOps[i].pc = "done"
         /\ cliOps[i].read
         /\ ~cliOps[i].thrown.isThrown
         /\ cliOps[i].docs = DocumentsOfFile(fs, file)

\* C28: in watch mode on an upsert-by-id store, once the events for a file
\* have been handled, the ids stored for the file are exactly the ids of the
\* documents of its current content.
C28_NoStaleDocuments ==
  (cliPc = "watching" /\ storeKind = "upsert") =>
    \A file \in {CodeFile, DocFile} :
      Settled(file) =>
        StoredIdsOf(file)
          = {DocumentsOfFile(fs, file)[k].id :
               k \in 1..Len(DocumentsOfFile(fs, file))}

=============================================================================
